---- MODULE Spec2Model ----
(***************************************************************************)
(* GridGuard SCADA testbed: the polling loops of the power-grid simulator  *)
(* (physical_process_enhanced.py, physical_process.py), of the two         *)
(* dashboards (web_dashboard.py, standalone_dashboard.py) and of the       *)
(* security monitor (blue_team_monitor.py), with the controller (OpenPLC)  *)
(* as their environment.                                                   *)
(*                                                                         *)
(* Numbers are fixed point.  Power is in units of 1e-4 MW (0.8 MW = 8000), *)
(* reactive power of a load in units of 1e-7 Mvar, factors and sines are   *)
(* scaled by 10000, frequency is in mHz.  NaN is a value outside every     *)
(* range the model uses; arithmetic on it yields NaN.                      *)
(***************************************************************************)
EXTENDS Integers, Sequences, FiniteSets, TLC

VARIABLES
    running,            \* the programs that were started
    clock,              \* wall-clock time, in polling periods
    plc_link,           \* controller: "up", "error" (answers with an error response), "down"
    plc_coil,           \* controller: the breaker coil %QX0.0
    \* physical_process_enhanced.py : PowerSystemHMI
    hmi_pc,             \* "connect", "loop", "stopped"
    hmi_client,         \* self.client: "unset", "connected", "None"
    hmi_attempt,        \* attempt of connect_to_plc's for loop
    simulation_time,    \* self.simulation_time
    net_switch_closed,  \* self.net.switch.loc[0, 'closed']
    net_load,           \* self.net.load: <<[p_mw, q_mvar], ...>>
    hmi_result,         \* what read_coils gave in get_plc_breaker_state: "none", "ok", "error", "exception"
    converged,          \* what run_power_flow returned in the last cycle
    metrics,            \* run_simulation's local: None or the snapshot
    hmi_exc,            \* the exception run_simulation caught in the last cycle: "none" or where it was raised
    power_flow_log,     \* /usr/src/app/logs/power_flow.log: its lines
    scada_data_json,    \* /shared_data/scada_data.json: its content
    \* physical_process.py
    pp_pc,              \* "connect", "loop", "exited" (exit(1)), "stopped" (interrupted)
    pp_retry_count,     \* retry_count
    pp_result,          \* what read_coils gave in the last cycle
    pp_breaker_state,   \* breaker_state
    pp_switch_closed,   \* net.switch.loc[0, 'closed']
    \* web_dashboard.py : SCADASystem and scada_worker
    web_pc,             \* "connect" (initial connection attempts), "loop"
    web_retry_count,    \* retry_count
    web_client,         \* scada_system.client: "None" or "client"
    web_connected,      \* plc_status['connected']
    web_breaker_state,  \* plc_status['breaker_state']
    web_cycle_count,    \* cycle_count, kept modulo 6 (all the worker uses of it)
    web_switch_closed,  \* net.switch.loc[0, 'closed']
    web_read,           \* the read of the last cycle: "none", "ok", "error", "exception"
    web_ops,            \* the calls the last cycle made to the controller, in order
    web_simulation,     \* what get_simulation_data returned in the last cycle
    web_file_seen,      \* history: the state of the shared file when it was last read
    web_total_cycles,   \* system_metrics['total_cycles'], counted up to MaxCount
    web_power_flow,     \* power_flow_success of the last cycle
    web_emitted,        \* the events the last cycle of the worker emitted, in order
    web_unclosed,       \* whether a client that had connected was replaced without close()
    web_dwell,          \* history: the simulation-mode cycles since breaker_state last
                        \* changed, and whether that change was a simulated toggle
    client_users,       \* the execution contexts inside a call on scada_system.client
    web_breaker_writer, \* history: who assigned plc_status['breaker_state'] last:
                        \* "init", "worker" or "handler"
    web_last_good,      \* history: the bit of the last successful read, "never" before it
    \* web_dashboard.py : the socket handlers, each event in a thread of its own
    active_connections, \* active_connections
    sock_pc,            \* per client: "closed", "admitted" (handle_connect is past its
                        \* check of the limit), "open"
    sock_emitted,       \* per client: the last event emitted to it, <<>> for none
    toggle_pc,          \* handle_toggle_breaker: "idle", or "writing" (inside write_coil)
    toggle_new_state,   \* its new_state
    toggle_status,      \* the last 'status' event it emitted
    \* standalone_dashboard.py : StandaloneSCADA and scada_worker
    QUIET_MODE,         \* SCADA_QUIET_MODE
    CONSOLE_MODE,       \* SCADA_CONSOLE_MODE
    sa_pc,              \* "connect" (the connection attempts), "loop"
    sa_attempt,         \* attempt
    sa_connected,       \* plc_status['connected']
    sa_breaker_state,   \* plc_status['breaker_state']
    sa_switch_closed,   \* net.switch.loc[0, 'closed']
    sa_simulation_time, \* scada.simulation_time
    simulation_data,    \* scada.simulation_data, <<>> for {}
    sa_emitted,         \* status['simulation'] of the last 'scada_update', <<>> before it
    sa_exc,             \* whether the last cycle ended in "except Exception"
    sa_total_cycles,    \* system_metrics['total_cycles']
    sa_read,            \* how the last cycle's read_coils ended, "none" without one
    sa_broadcasts,      \* the events the last cycle of the worker emitted, in order
    \* blue_team_monitor.py : PLCSecurityMonitor
    mon_pc,             \* "start", "loop"; "returned", "ended", "stopped" after run_monitoring
    mon_client,         \* the client's socket: "closed" or "open"
    mon_iteration,      \* iteration
    mon_time,           \* int(time.time()) of the last cycle, in seconds since the start
    mon_current_data,   \* current_data of the last cycle, <<>> for None
    mon_alerts,         \* alerts of the last cycle
    command_history,    \* self.command_history
    mon_transitions,    \* history: the times, within the last minute, of the cycles in which
                        \* last_command_time differed from the previous successful read
    mon_written,        \* history: how many lines the last cycle appended to the alert log
    mon_last_values,    \* self.last_values, <<>> for {}
    security_alerts_log \* logs/security_alerts.log, one <<severity, type>> per line

simVars == <<hmi_pc, hmi_client, hmi_attempt, simulation_time, net_switch_closed,
             net_load, hmi_result, converged, metrics, hmi_exc, power_flow_log,
             scada_data_json>>
ppVars == <<pp_pc, pp_retry_count, pp_result, pp_breaker_state, pp_switch_closed>>
webVars == <<web_pc, web_retry_count, web_client, web_connected, web_breaker_state,
             web_cycle_count, web_switch_closed, web_read, web_ops, web_last_good,
             web_simulation, web_file_seen, client_users, web_breaker_writer,
             web_total_cycles, web_power_flow, web_emitted, web_dwell, web_unclosed>>
toggleVars == <<toggle_pc, toggle_new_state, toggle_status>>
sockVars == <<active_connections, sock_pc, sock_emitted, toggleVars>>
saVars == <<QUIET_MODE, CONSOLE_MODE, sa_pc, sa_attempt, sa_connected, sa_breaker_state,
            sa_switch_closed, sa_simulation_time, simulation_data, sa_emitted, sa_exc,
            sa_total_cycles, sa_read, sa_broadcasts>>
monVars == <<mon_pc, mon_client, mon_iteration, mon_time, mon_current_data, mon_alerts,
             command_history, mon_transitions, mon_written, mon_last_values,
             security_alerts_log>>
envVars == <<plc_link, plc_coil>>
vars == <<running, clock, envVars, simVars, ppVars, webVars, sockVars, saVars, monVars>>
\* what an action of one program leaves alone
notSim == <<ppVars, webVars, sockVars, saVars, monVars>>
notPp == <<simVars, webVars, sockVars, saVars, monVars>>
notWeb == <<simVars, ppVars, sockVars, saVars, monVars>>
notSock == <<simVars, ppVars, webVars, saVars, monVars>>
notToggle == <<simVars, ppVars, saVars, monVars>>
notSa == <<simVars, ppVars, webVars, sockVars, monVars>>
notMon == <<simVars, ppVars, webVars, sockVars, saVars>>

(***************************************************************************)
(* Bounds of the model.                                                    *)
(***************************************************************************)
MaxCycles == 3
\* the dashboard's count of solved cycles is followed up to here
MaxCount == 2

(***************************************************************************)
(* Values.                                                                 *)
(***************************************************************************)
NaN == -(2^30)
None == [type |-> "None"]
IsNaN(x) == x = NaN
Abs(x) == IF x < 0 THEN -x ELSE x
FAdd(a, b) == IF IsNaN(a) \/ IsNaN(b) THEN NaN ELSE a + b
FSub(a, b) == IF IsNaN(a) \/ IsNaN(b) THEN NaN ELSE a - b
FAbs(a) == IF IsNaN(a) THEN NaN ELSE Abs(a)

Links == {"up", "error", "down"}

(***************************************************************************)
(* Synthetic load model: update_dynamic_loads.                             *)
(***************************************************************************)
Scale == 10^4
SinQuarter == <<0, 1305, 2588, 3827, 5000, 6088, 7071, 7934, 8660, 9239, 9659, 9914, 10000>>

\* Scale * sin(2*pi*k/48), k an integer
Sin48(k) ==
    LET j == k % 48
    IN  IF j <= 12 THEN SinQuarter[j + 1]
        ELSE IF j <= 24 THEN SinQuarter[24 - j + 1]
        ELSE IF j <= 36 THEN -SinQuarter[j - 24 + 1]
        ELSE -SinQuarter[48 - j + 1]

\* hour_of_day = (simulation_time / 10) % 24, in half hours (simulation_time is a multiple of 5)
hour_of_day(t) == (t \div 5) % 48

industrial_factor(t) == 7000 + (3 * (Scale + Sin48(hour_of_day(t) - 12))) \div 10

\* r is the draw of np.random.normal(0, 0.1), scaled
commercial_factor(t, r) ==
    IF 16 <= hour_of_day(t) /\ hour_of_day(t) <= 36
    THEN 9000 + (2 * r) \div 10
    ELSE 3000 + r \div 10

residential_factor(t) ==
    LET s == Scale + Sin48(hour_of_day(t) - 38)
    IN  4000 + (6 * ((s * s) \div Scale)) \div 10

PyMax_NoFloor(floor, x) == x
\* Python's max(floor, x)
PyMax(floor, x) == IF x > floor THEN x ELSE floor

IndustrialFloor == 2000
CommercialFloor == 1000
ResidentialFloor == 5000
IndustrialNominal == 8000
CommercialNominal == 5000
ResidentialNominal == 21000
IndustrialQ == 375
CommercialQ == 400
ResidentialQ == 380

\* noise = <<n0, n1, n2>> is 0.05 * np.random.normal(0, 1, 3), scaled
update_dynamic_loads(t, r, noise) ==
    LET p0 == PyMax(IndustrialFloor, (8 * industrial_factor(t)) \div 10 + noise[1])
        p1 == PyMax(CommercialFloor, (5 * commercial_factor(t, r)) \div 10 + noise[2])
        p2 == PyMax(ResidentialFloor, (21 * residential_factor(t)) \div 10 + noise[3])
    IN  << [name |-> "Industrial Load", p_mw |-> p0, q_mvar |-> p0 * IndustrialQ],
           [name |-> "Commercial Load", p_mw |-> p1, q_mvar |-> p1 * CommercialQ],
           [name |-> "Residential Feeder", p_mw |-> p2, q_mvar |-> p2 * ResidentialQ] >>

\* setup_power_system's loads
InitialLoads ==
    << [name |-> "Industrial Load", p_mw |-> IndustrialNominal, q_mvar |-> 3000000],
       [name |-> "Commercial Load", p_mw |-> CommercialNominal, q_mvar |-> 2000000],
       [name |-> "Residential Feeder", p_mw |-> ResidentialNominal, q_mvar |-> 8000000] >>

(***************************************************************************)
(* The controller, as the programs see it.                                 *)
(***************************************************************************)
\* ModbusTcpClient.connect(): the TCP connection is made unless the controller is down
Connect(link) == link # "down"

\* ModbusTcpClient.read_coils(address=0, count=1): a response with bits, an
\* error response (isError()), or an exception raised
read_coils(link, coil) ==
    CASE link = "up"    -> [kind |-> "ok", bit |-> coil]
      [] link = "error" -> [kind |-> "error", bit |-> FALSE]
      [] OTHER          -> [kind |-> "exception", bit |-> FALSE]

\* ModbusTcpClient.read_holding_registers(address=0, count=25), likewise
read_holding_registers(link, regs) ==
    CASE link = "up"    -> [kind |-> "ok", registers |-> regs]
      [] link = "error" -> [kind |-> "error", registers |-> <<>>]
      [] OTHER          -> [kind |-> "exception", registers |-> <<>>]

\* the controller changes state at any time
PlcEnv ==
    /\ \E l \in Links, c \in BOOLEAN :
          /\ <<l, c>> # <<plc_link, plc_coil>>
          /\ plc_link' = l
          /\ plc_coil' = c
    /\ UNCHANGED <<running, clock, simVars, ppVars, webVars, sockVars, saVars, monVars>>

(***************************************************************************)
(* The load-flow solver pp.runpp, an opaque library: it raises, or leaves  *)
(* one of these results in net.res_*.  With the breaker open MV Bus 2,     *)
(* its generator and the critical line are cut from the grid and reported  *)
(* as NaN.                                                                  *)
(***************************************************************************)
ClosedResults ==
    { [vm_pu |-> 9800, p_from_mw |-> 21000, q_from_mvar |-> 8000, loading_percent |-> 452,
       i_from_ka |-> 95, gen_p_mw |-> 15000, gen_q_mvar |-> 3000, ext_p_mw |-> 19500] }
OpenResults ==
    { [vm_pu |-> NaN, p_from_mw |-> NaN, q_from_mvar |-> NaN, loading_percent |-> NaN,
       i_from_ka |-> NaN, gen_p_mw |-> NaN, gen_q_mvar |-> NaN, ext_p_mw |-> 8100] }
runpp(closed) == IF closed THEN ClosedResults ELSE OpenResults

\* the np.random.normal draws of one cycle, scaled: the commercial factor's
\* draw, the loads' noise and the jitter of the frequency (mHz)
RandomDraws ==
    { [r |-> 0, noise |-> <<0, 0, 0>>, jitter |-> 20],
      [r |-> -1000, noise |-> <<-4000, -600, -4000>>, jitter |-> -150] }

(***************************************************************************)
(* physical_process_enhanced.py : PowerSystemHMI                           *)
(***************************************************************************)
max_retries == 15

\* one attempt of connect_to_plc's for loop
connect_to_plc ==
    /\ "sim" \in running
    /\ hmi_pc = "connect"
    /\ IF Connect(plc_link)
       THEN /\ hmi_client' = "connected"
            /\ hmi_pc' = "loop"
            /\ UNCHANGED hmi_attempt
       ELSE /\ hmi_attempt' = hmi_attempt + 1
            /\ IF hmi_attempt + 1 = max_retries
               THEN hmi_client' = "None" /\ hmi_pc' = "loop"
               ELSE UNCHANGED <<hmi_client, hmi_pc>>
    /\ UNCHANGED <<running, clock, envVars, notSim, simulation_time, net_switch_closed,
                   net_load, hmi_result, converged, metrics, hmi_exc, power_flow_log,
                   scada_data_json>>

BreakerOfResult_Confused(result) == result.bit
\* get_plc_breaker_state, with a client: the coil, or True on an error response or an exception
BreakerOfResult(result) == IF result.kind = "ok" THEN result.bit ELSE TRUE

get_plc_breaker_state_HalfOpen(client, t, link, coil) ==
    IF client = "None"
    THEN (t % 40) < 20
    ELSE BreakerOfResult(read_coils(link, coil))
\* get_plc_breaker_state
get_plc_breaker_state(client, t, link, coil) ==
    IF client = "None"
    THEN (t % 40) < 30
    ELSE BreakerOfResult(read_coils(link, coil))

\* the line entry of get_system_metrics: the solver's values as they are
line_data(res) ==
    [name |-> "Critical Transmission Line", from_bus |-> "MV Bus 1", to_bus |-> "MV Bus 2",
     p_from_mw |-> res.p_from_mw, q_from_mvar |-> res.q_from_mvar,
     loading_percent |-> res.loading_percent, current_ka |-> res.i_from_ka]

SumP(s) == FAdd(FAdd(s[1].p_mw, s[2].p_mw), s[3].p_mw)

\* 'breaker_status' of a snapshot: 'CLOSED' if breaker_state else 'OPEN'
BreakerStatus_Inverted(breaker_state) == IF breaker_state THEN "OPEN" ELSE "CLOSED"
BreakerStatus(breaker_state) == IF breaker_state THEN "CLOSED" ELSE "OPEN"

\* get_system_metrics: 'system_losses_mw'
system_losses_mw_Signed(total_generation, grid_import, total_load) ==
    FSub(FAdd(total_generation, grid_import), total_load)
system_losses_mw(total_generation, grid_import, total_load) ==
    FAbs(FSub(FAdd(total_generation, grid_import), total_load))

\* the snapshot get_system_metrics builds after a converged solve
Snapshot(ts, breaker_state, jitter, res, loads) ==
    [timestamp |-> ts,
     breaker_state |-> breaker_state,
     breaker_status |-> BreakerStatus(breaker_state),
     system_frequency |-> 60000 + jitter,
     buses |-> << [name |-> "MV Bus 2", voltage_kv |-> 138, voltage_pu |-> res.vm_pu] >>,
     lines |-> << line_data(res) >>,
     loads |-> loads,
     generators |-> << [name |-> "Distributed Generator", bus |-> "MV Bus 2",
                        p_mw |-> res.gen_p_mw, q_mvar |-> res.gen_q_mvar] >>,
     power_flow |-> [total_load_mw |-> SumP(loads),
                     total_generation_mw |-> res.gen_p_mw,
                     grid_import_mw |-> res.ext_p_mw,
                     system_losses_mw |-> system_losses_mw(res.gen_p_mw, res.ext_p_mw,
                                                           SumP(loads))]]

\* the critical line of a snapshot (next(...) in run_simulation)
critical_line(m) == m.lines[1]

\* /shared_data/scada_data.json
FileMissing == [state |-> "missing"]
FileOf(m) == [state |-> "complete", doc |-> m]
\* open(path, 'w') truncated the file and json.dump raised before it was done
FilePartial(m) == [state |-> "partial", doc |-> m]

\* open(path, 'w') truncated the file and nothing of json.dump has reached it
FileEmpty == [state |-> "empty"]

\* where an I/O call of the publishing step raises: appending to the log,
\* os.makedirs or open(web_data_path, 'w'), json.dump
IoFaults == {"none", "log", "open", "dump"}

\* the time-series log after the publish step appended the line of snapshot m
PublishLog(log, m) == Append(log, <<m.timestamp, critical_line(m).loading_percent>>)

\* run_simulation: "if metrics:"
PublishGuard(m) == m # None

\* what run_simulation's loop does after a failed solve: goes on
AfterFailedSolve_Break == "stopped"
AfterFailedSolve == "loop"

MetricsOf_IgnoreConverged(ok, snapshot) == snapshot
\* get_system_metrics: "if not converged: return None", else the snapshot
MetricsOf(ok, snapshot) == IF ok THEN snapshot ELSE None

\* one iteration of run_simulation's loop
run_simulation ==
    /\ "sim" \in running
    /\ hmi_pc = "loop"
    /\ clock < MaxCycles
    /\ clock' = clock + 1
    /\ LET result == IF hmi_client = "None" THEN [kind |-> "none", bit |-> FALSE]
                     ELSE read_coils(plc_link, plc_coil)
           breaker_state == get_plc_breaker_state(hmi_client, simulation_time, plc_link, plc_coil)
       IN  /\ hmi_result' = result.kind
           /\ net_switch_closed' = breaker_state
           /\ \E d \in RandomDraws, ok \in BOOLEAN, res \in runpp(breaker_state),
                 io \in IoFaults :
                /\ net_load' = update_dynamic_loads(simulation_time, d.r, d.noise)
                /\ converged' = ok
                /\ metrics' = MetricsOf(ok, Snapshot(clock, breaker_state, d.jitter, res, net_load'))
                /\ IF PublishGuard(metrics')
                   THEN /\ hmi_exc' = io
                        /\ power_flow_log' =
                              IF io = "log" THEN power_flow_log
                              ELSE PublishLog(power_flow_log, metrics')
                        /\ scada_data_json' =
                              CASE io = "none" -> FileOf(metrics')
                                [] io = "dump" -> FilePartial(metrics')
                                [] OTHER       -> scada_data_json
                        /\ simulation_time' =
                              IF io = "none" THEN simulation_time + 5 ELSE simulation_time
                        /\ hmi_pc' = "loop"
                   ELSE /\ io = "none"
                        /\ hmi_exc' = "none"
                        /\ simulation_time' = simulation_time + 5
                        /\ hmi_pc' = AfterFailedSolve
                        /\ UNCHANGED <<power_flow_log, scada_data_json>>
    /\ UNCHANGED <<running, envVars, notSim, hmi_client, hmi_attempt>>

\* how many snapshots the simulator writes while the dashboard runs beside it
MaxWrites == 2

\* a converged iteration of run_simulation's loop up to and with
\* open(web_data_path, 'w'), for the programs that run beside it
publish_open ==
    /\ "sim" \in running
    /\ hmi_pc = "loop"
    /\ clock < MaxWrites
    /\ clock' = clock + 1
    /\ LET result == IF hmi_client = "None" THEN [kind |-> "none", bit |-> FALSE]
                     ELSE read_coils(plc_link, plc_coil)
           breaker_state == get_plc_breaker_state(hmi_client, simulation_time, plc_link, plc_coil)
       IN  /\ hmi_result' = result.kind
           /\ net_switch_closed' = breaker_state
           /\ \E d \in RandomDraws, res \in runpp(breaker_state) :
                /\ net_load' = update_dynamic_loads(simulation_time, d.r, d.noise)
                /\ metrics' = MetricsOf(TRUE, Snapshot(clock, breaker_state, d.jitter, res, net_load'))
                /\ power_flow_log' = PublishLog(power_flow_log, metrics')
    /\ converged' = TRUE
    /\ hmi_exc' = "none"
    /\ scada_data_json' = FileEmpty
    /\ hmi_pc' = "writing"
    /\ UNCHANGED <<running, envVars, notSim, hmi_client, hmi_attempt, simulation_time>>

\* the rest of that iteration: json.dump and the end of the with block
publish_dump ==
    /\ "sim" \in running
    /\ hmi_pc = "writing"
    /\ scada_data_json' = FileOf(metrics)
    /\ simulation_time' = simulation_time + 5
    /\ hmi_pc' = "loop"
    /\ UNCHANGED <<running, clock, envVars, notSim, hmi_client, hmi_attempt, net_switch_closed,
                   net_load, hmi_result, converged, metrics, hmi_exc, power_flow_log>>

\* KeyboardInterrupt in run_simulation: break
hmi_interrupt ==
    /\ "sim" \in running
    /\ hmi_pc = "loop"
    /\ hmi_pc' = "stopped"
    /\ UNCHANGED <<running, clock, envVars, notSim, hmi_client, hmi_attempt,
                   simulation_time, net_switch_closed, net_load, hmi_result, converged,
                   metrics, hmi_exc, power_flow_log, scada_data_json>>

(***************************************************************************)
(* physical_process.py                                                     *)
(***************************************************************************)
\* a retry loop that tries once more
pp_max_retries_More == 30 + 1
pp_max_retries == 30

\* one iteration of the connection retry loop, and exit(1) after the last one
pp_connect ==
    /\ "basic" \in running
    /\ pp_pc = "connect"
    /\ IF Connect(plc_link)
       THEN /\ pp_pc' = "loop"
            /\ UNCHANGED pp_retry_count
       ELSE /\ pp_retry_count' = pp_retry_count + 1
            /\ pp_pc' = IF pp_retry_count + 1 < pp_max_retries THEN "connect" ELSE "exited"
    /\ UNCHANGED <<running, clock, envVars, notPp, pp_result, pp_breaker_state,
                   pp_switch_closed>>

pp_BreakerOfResult_Confused(result) == result.bit
\* the loop's read: the coil, or True ("Default to closed state") on an
\* error response or an exception
pp_BreakerOfResult(result) == IF result.kind = "ok" THEN result.bit ELSE TRUE

\* one iteration of the simulation loop; a failed pp.runpp is printed
pp_loop ==
    /\ "basic" \in running
    /\ pp_pc = "loop"
    /\ clock < MaxCycles
    /\ clock' = clock + 1
    /\ LET result == read_coils(plc_link, plc_coil)
       IN  /\ pp_result' = result.kind
           /\ pp_breaker_state' = pp_BreakerOfResult(result)
           /\ pp_switch_closed' = pp_breaker_state'
    /\ UNCHANGED <<running, envVars, notPp, pp_pc, pp_retry_count>>

\* KeyboardInterrupt ends the process
pp_interrupt ==
    /\ "basic" \in running
    /\ pp_pc \in {"connect", "loop"}
    /\ pp_pc' = "stopped"
    /\ UNCHANGED <<running, clock, envVars, notPp, pp_retry_count, pp_result,
                   pp_breaker_state, pp_switch_closed>>

(***************************************************************************)
(* web_dashboard.py : SCADASystem and scada_worker                         *)
(***************************************************************************)
web_max_retries == 10
\* a worker that toggles one cycle early
ToggleEvery_Five == 6 - 1
ToggleEvery == 6

\* one iteration of scada_worker's initial connection loop; connect_to_plc
\* makes a new client and sets plc_status['connected']
web_connect ==
    /\ "web" \in running
    /\ web_pc = "connect"
    /\ web_client' = "client"
    /\ IF Connect(plc_link)
       THEN /\ web_connected' = TRUE
            /\ web_pc' = "loop"
            /\ UNCHANGED web_retry_count
       ELSE /\ web_connected' = FALSE
            /\ web_retry_count' = web_retry_count + 1
            /\ web_pc' = IF web_retry_count + 1 < web_max_retries THEN "connect" ELSE "loop"
    /\ UNCHANGED <<running, clock, envVars, notWeb, web_breaker_state, web_cycle_count,
                   web_switch_closed, web_read, web_ops, web_last_good, web_simulation,
                   web_file_seen, client_users, web_breaker_writer, web_total_cycles,
                   web_power_flow, web_emitted, web_dwell,
                   web_unclosed>>

ReadSucceeded_Always(result) == TRUE
\* read_plc_data's return value
ReadSucceeded(result) == result.kind = "ok"

BoolName(b) == IF b THEN "true" ELSE "false"

\* get_simulation_data's fallback when the shared file does not exist; its
\* other entries are functions of the wall clock alone
FallbackData(breaker_state) ==
    [breaker_state |-> breaker_state,
     breaker_status |-> BreakerStatus(breaker_state)]

\* socketio.emit(event, data), appended to what the cycle has emitted
socketio_emit_Dropped(sent, event, data) == sent
socketio_emit(sent, event, data) == Append(sent, [event |-> event, data |-> data])

\* the counter of solved cycles; the model stops counting at MaxCount
Counted(n) == IF n < MaxCount THEN n + 1 ELSE n

\* get_system_status: the status document.  Of plc_status and system_metrics
\* the entries the model keeps; 'grid_data' and the clock readings are left out
get_system_status(connected, breaker_state, total_cycles, sim_data) ==
    [plc_status |-> [connected |-> connected, breaker_state |-> breaker_state],
     system_metrics |-> [total_cycles |-> total_cycles],
     simulation |-> sim_data]

\* get_simulation_data: the document of the file, the fallback when there is
\* no file, None when json.load raises on what the file holds
get_simulation_data(file, breaker_state) ==
    CASE file.state = "complete" -> file.doc
      [] file.state = "missing"  -> FallbackData(breaker_state)
      [] OTHER                   -> None

\* one iteration of scada_worker's main loop: read_plc_data and, when it
\* failed, connect_to_plc; or the simulated toggle; then run_power_flow
scada_worker_cycle ==
    /\ web_cycle_count' = (web_cycle_count + 1) % ToggleEvery
    /\ IF web_connected
       THEN LET result == read_coils(plc_link, plc_coil)
            IN  /\ web_read' = result.kind
                /\ web_breaker_state' =
                      IF result.kind = "ok" THEN result.bit ELSE web_breaker_state
                /\ web_last_good' =
                      IF result.kind = "ok" THEN BoolName(result.bit) ELSE web_last_good
                /\ web_breaker_writer' =
                      IF result.kind = "ok" THEN "worker" ELSE web_breaker_writer
                /\ IF ReadSucceeded(result)
                   THEN /\ web_ops' = <<"read_coils">>
                        /\ UNCHANGED <<web_connected, web_client, web_unclosed>>
                   ELSE /\ web_ops' = <<"read_coils", "connect">>
                        /\ web_client' = "client"
                        /\ web_unclosed' = TRUE
                        /\ web_connected' = Connect(plc_link)
       ELSE /\ web_read' = "none"
            /\ web_ops' = <<>>
            /\ web_breaker_state' =
                  IF web_cycle_count' = 0 THEN ~web_breaker_state ELSE web_breaker_state
            /\ web_breaker_writer' =
                  IF web_cycle_count' = 0 THEN "worker" ELSE web_breaker_writer
            /\ UNCHANGED <<web_connected, web_client, web_last_good, web_unclosed>>
    /\ web_switch_closed' = web_breaker_state'
    /\ \E power_flow_success \in BOOLEAN :
          /\ web_power_flow' = power_flow_success
          /\ web_total_cycles' =
                IF power_flow_success THEN Counted(web_total_cycles) ELSE web_total_cycles
    /\ web_simulation' = get_simulation_data(scada_data_json, web_breaker_state')
    /\ web_file_seen' = scada_data_json.state
    /\ web_dwell' =
          CASE web_connected -> [cycles |-> 0, toggled |-> FALSE]
            [] web_breaker_state' # web_breaker_state -> [cycles |-> 1, toggled |-> TRUE]
            [] OTHER -> [web_dwell EXCEPT !.cycles = @ + 1]
    /\ web_emitted' = socketio_emit(<<>>, "scada_update",
                          get_system_status(web_connected', web_breaker_state',
                                            web_total_cycles', web_simulation'))
    /\ UNCHANGED <<running, clock, envVars, notWeb, web_retry_count>>

\* the iteration in one step, for the worker on its own
web_cycle ==
    /\ "web" \in running
    /\ web_pc = "loop"
    /\ scada_worker_cycle
    /\ UNCHANGED <<web_pc, client_users>>

\* the iteration in two steps, for the handlers that run beside the worker:
\* the worker enters its iteration and, when connected, read_coils
web_cycle_begin ==
    /\ "web" \in running
    /\ web_pc = "loop"
    /\ web_pc' = "cycle"
    /\ client_users' = IF web_connected THEN client_users \cup {"worker"} ELSE client_users
    /\ UNCHANGED <<running, clock, envVars, notWeb, web_retry_count, web_client, web_connected,
                   web_breaker_state, web_cycle_count, web_switch_closed, web_read, web_ops,
                   web_last_good, web_simulation, web_file_seen, web_breaker_writer,
                   web_total_cycles, web_power_flow, web_emitted, web_dwell,
                   web_unclosed>>

\* read_coils answers and the iteration runs to its end
web_cycle_end ==
    /\ "web" \in running
    /\ web_pc = "cycle"
    /\ scada_worker_cycle
    /\ web_pc' = "loop"
    /\ client_users' = client_users \ {"worker"}

write_coil_AlwaysOk(link) == "ok"
\* client.write_coil: a response, an error response, or an exception
write_coil(link) ==
    CASE link = "up"    -> "ok"
      [] link = "error" -> "error"
      [] OTHER          -> "exception"

\* handle_toggle_breaker up to its call of write_coil on scada_system.client
toggle_begin ==
    /\ "web" \in running
    /\ toggle_pc = "idle"
    /\ IF web_connected /\ web_client # "None"
       THEN /\ toggle_new_state' = ~web_breaker_state
            /\ toggle_pc' = "writing"
            /\ client_users' = client_users \cup {"handler"}
            /\ UNCHANGED toggle_status
       ELSE /\ toggle_status' = "PLC not connected"
            /\ UNCHANGED <<toggle_new_state, toggle_pc, client_users>>
    /\ UNCHANGED <<running, clock, envVars, notToggle, active_connections, sock_pc, sock_emitted,
                   web_pc, web_retry_count, web_client, web_connected, web_breaker_state,
                   web_cycle_count, web_switch_closed, web_read, web_ops, web_last_good,
                   web_simulation, web_file_seen, web_breaker_writer, web_total_cycles,
                   web_power_flow, web_emitted, web_dwell,
                   web_unclosed>>

\* the /api/status handler, in a thread of the web server: get_system_status
api_status ==
    /\ "web" \in running
    /\ web_simulation' = get_simulation_data(scada_data_json, web_breaker_state)
    /\ web_file_seen' = scada_data_json.state
    /\ UNCHANGED <<running, clock, envVars, notWeb, web_pc, web_retry_count, web_client,
                   web_connected, web_breaker_state, web_cycle_count, web_switch_closed,
                   web_read, web_ops, web_last_good, client_users, web_breaker_writer,
                   web_total_cycles, web_power_flow, web_emitted, web_dwell,
                   web_unclosed>>

\* the rest of handle_toggle_breaker: write_coil answers, and on success the
\* handler assigns plc_status['breaker_state']
toggle_end ==
    /\ "web" \in running
    /\ toggle_pc = "writing"
    /\ toggle_pc' = "idle"
    /\ client_users' = client_users \ {"handler"}
    /\ IF write_coil(plc_link) = "ok"
       THEN /\ plc_coil' = toggle_new_state
            /\ web_breaker_state' = toggle_new_state
            /\ web_breaker_writer' = "handler"
            /\ toggle_status' = IF toggle_new_state THEN "Breaker CLOSED" ELSE "Breaker OPEN"
       ELSE /\ toggle_status' = IF write_coil(plc_link) = "error"
                                THEN "Failed to write to PLC" ELSE "Failed to toggle breaker"
            /\ UNCHANGED <<plc_coil, web_breaker_state, web_breaker_writer>>
    /\ UNCHANGED <<running, clock, plc_link, notToggle, active_connections, sock_pc,
                   sock_emitted, toggle_new_state, web_pc, web_retry_count, web_client,
                   web_connected, web_cycle_count, web_switch_closed, web_read, web_ops,
                   web_last_good, web_simulation, web_file_seen, web_total_cycles,
                   web_power_flow, web_emitted, web_dwell,
                   web_unclosed>>

(***************************************************************************)
(* web_dashboard.py : handle_connect and handle_disconnect.  The server    *)
(* runs every socket event in a thread of its own, so a handler can be     *)
(* overtaken between its check of the limit and its add.                   *)
(***************************************************************************)
MAX_CONNECTIONS == 5
\* the clients that may connect, one more than the limit
MaxClients == 6
Sids == 1..MaxClients

Rejection == <<"connection_rejected", "Server at capacity">>

AtCapacity_Never(connections) == FALSE
\* "len(active_connections) >= MAX_CONNECTIONS"
AtCapacity(connections) == Cardinality(connections) >= MAX_CONNECTIONS

\* handle_connect up to its check of the limit: rejected, or past the check
handle_connect_check ==
    /\ "sockets" \in running
    /\ \E sid \in Sids :
          /\ sock_pc[sid] = "closed"
          /\ IF AtCapacity(active_connections)
             THEN /\ sock_emitted' = [sock_emitted EXCEPT ![sid] = Rejection]
                  /\ UNCHANGED sock_pc
             ELSE /\ sock_pc' = [sock_pc EXCEPT ![sid] = "admitted"]
                  /\ UNCHANGED sock_emitted
    /\ UNCHANGED <<running, clock, envVars, notSock, toggleVars, active_connections>>

\* the rest of handle_connect: add, emit the status, discard if emit raised;
\* the handler then returns None, which accepts the connection all the same
handle_connect_add ==
    /\ "sockets" \in running
    /\ \E sid \in Sids, emit_raises \in BOOLEAN :
          /\ sock_pc[sid] = "admitted"
          /\ IF emit_raises
             THEN /\ active_connections' = active_connections \ {sid}
                  /\ sock_pc' = [sock_pc EXCEPT ![sid] = "open"]
                  /\ UNCHANGED sock_emitted
             ELSE /\ active_connections' = active_connections \cup {sid}
                  /\ sock_pc' = [sock_pc EXCEPT ![sid] = "open"]
                  /\ sock_emitted' = [sock_emitted EXCEPT ![sid] = <<"scada_update">>]
    /\ UNCHANGED <<running, clock, envVars, notSock, toggleVars>>

\* handle_disconnect of a connected client
handle_disconnect ==
    /\ "sockets" \in running
    /\ \E sid \in Sids :
          /\ sock_pc[sid] = "open"
          /\ active_connections' = active_connections \ {sid}
          /\ sock_pc' = [sock_pc EXCEPT ![sid] = "closed"]
    /\ UNCHANGED <<running, clock, envVars, notSock, toggleVars, sock_emitted>>

(***************************************************************************)
(* standalone_dashboard.py : StandaloneSCADA and scada_worker              *)
(***************************************************************************)
sa_max_retries == 5

\* one iteration of scada_worker's "for attempt in range(max_retries)"
sa_connect ==
    /\ "standalone" \in running
    /\ sa_pc = "connect"
    /\ IF Connect(plc_link)
       THEN /\ sa_connected' = TRUE
            /\ sa_pc' = "loop"
            /\ UNCHANGED sa_attempt
       ELSE /\ sa_connected' = FALSE
            /\ sa_attempt' = sa_attempt + 1
            /\ sa_pc' = IF sa_attempt + 1 < sa_max_retries THEN "connect" ELSE "loop"
    /\ UNCHANGED <<running, clock, envVars, notSa, QUIET_MODE, CONSOLE_MODE, sa_breaker_state,
                   sa_switch_closed, sa_simulation_time, simulation_data, sa_emitted, sa_exc,
                   sa_total_cycles, sa_read, sa_broadcasts>>

\* the sections run_power_flow fills, in the order it fills them
Sections == <<"buses", "lines", "loads", "generators", "power_flow">>
SectionIndex(name) == CHOOSE i \in 1..Len(Sections) : Sections[i] = name

\* where run_power_flow raises: nowhere, in runpp, or while it fills a section
PowerFlowFaults == {"none", "solve"} \cup {Sections[i] : i \in 1..Len(Sections)}

\* simulation_data when filling section `fault` raised: the dictionary was
\* assigned with empty sections, and the sections before `fault` are filled
FilledUpTo(doc, fault) ==
    [k \in DOMAIN doc |->
        IF \E i \in 1..Len(Sections) : Sections[i] = k /\ i >= SectionIndex(fault)
        THEN <<>>
        ELSE doc[k]]

\* run_power_flow's breaker state: the last one read or, when not
\* connected, the simulated one
sa_breaker(connected, breaker_state, t) ==
    IF connected THEN breaker_state ELSE (t % 40) < 30

\* the prints of scada_worker index sim['power_flow']; QUIET_MODE prints nothing
DisplayRaises(sim) ==
    /\ sim # <<>>
    /\ CONSOLE_MODE \/ ~QUIET_MODE
    /\ sim.power_flow = <<>>

\* one iteration of scada_worker's main loop
sa_cycle ==
    /\ "standalone" \in running
    /\ sa_pc = "loop"
    /\ clock < MaxCycles
    /\ clock' = clock + 1
    /\ LET result == read_coils(plc_link, plc_coil)
           read_state == IF sa_connected /\ result.kind = "ok"
                         THEN result.bit ELSE sa_breaker_state
           breaker_state == sa_breaker(sa_connected, read_state, sa_simulation_time)
       IN  /\ sa_read' = IF sa_connected THEN result.kind ELSE "none"
           /\ sa_breaker_state' = breaker_state
           /\ sa_switch_closed' = breaker_state
           /\ \E d \in RandomDraws, res \in runpp(breaker_state), fault \in PowerFlowFaults :
                LET loads == update_dynamic_loads(sa_simulation_time, d.r, d.noise)
                    doc == Snapshot(clock, breaker_state, d.jitter, res, loads)
                IN  /\ simulation_data' =
                          CASE fault = "none"  -> doc
                            [] fault = "solve" -> simulation_data
                            [] OTHER           -> FilledUpTo(doc, fault)
                    /\ sa_emitted' = simulation_data'
                    /\ sa_total_cycles' =
                          IF fault = "none" THEN sa_total_cycles + 1 ELSE sa_total_cycles
                    /\ sa_broadcasts' = socketio_emit(<<>>, "scada_update",
                          get_system_status(sa_connected, sa_breaker_state', sa_total_cycles',
                                            simulation_data'))
                    /\ sa_exc' = DisplayRaises(simulation_data')
                    /\ sa_simulation_time' =
                          IF sa_exc' THEN sa_simulation_time ELSE sa_simulation_time + 5
    /\ UNCHANGED <<running, envVars, notSa, QUIET_MODE, CONSOLE_MODE, sa_pc, sa_attempt,
                   sa_connected>>

(***************************************************************************)
(* blue_team_monitor.py : PLCSecurityMonitor                               *)
(***************************************************************************)
security_event_max == 10
safety_timer_min == 50
safety_timer_max == 500
expected_signature == 305419896
\* 0xDEADBEEF, as its two 16-bit halves
MaintenanceBypassHigh == 57005
MaintenanceBypassLow == 48879
max_command_frequency == 5
HistoryWindow == 600
FrequencyWindow == 60
\* maintenance_override is kept as its two 16-bit halves <<high, low>>; a
\* holding register holds the low half only
Wide(low) == <<0, low>>
IsMaintenanceBypass_Never(x) == FALSE
\* "maint_override == 0xDEADBEEF"
IsMaintenanceBypass(x) == x = <<MaintenanceBypassHigh, MaintenanceBypassLow>>

\* what the controller's registers and coils hold when they are read; a
\* holding register is 16 bits wide
RegisterSamples ==
    { [security_event_count |-> 0, maintenance_override |-> Wide(0), safety_timer_preset |-> 100,
       health_signature |-> 22136, last_command_time |-> 0, covert_channel_data |-> 0,
       circuit_breaker |-> TRUE, emergency_bypass |-> FALSE, debug_mode |-> FALSE],
      [security_event_count |-> 11, maintenance_override |-> Wide(48879), safety_timer_preset |-> 10,
       health_signature |-> 0, last_command_time |-> 7, covert_channel_data |-> 65535,
       circuit_breaker |-> FALSE, emergency_bypass |-> TRUE, debug_mode |-> TRUE] }

read_security_registers_Stale(link, sample) == sample
\* read_security_registers: None unless both reads answered
read_security_registers(link, sample) ==
    IF read_holding_registers(link, sample).kind = "ok" /\ read_coils(link, FALSE).kind = "ok"
    THEN sample
    ELSE <<>>

Alert_Doubled(cond, type, severity) ==
    IF cond THEN << [type |-> type, severity |-> severity],
                    [type |-> type, severity |-> severity] >> ELSE <<>>
\* alerts.append({...}) under the check's condition
Alert(cond, type, severity) ==
    IF cond THEN << [type |-> type, severity |-> severity] >> ELSE <<>>

\* "key in d" for a dictionary d, whose keys are strings: a key of another
\* type is not among them
PyIn_Values(key_type, key, dict) == dict # <<>>
PyIn(key_type, key, dict) == key_type = "str" /\ key \in DOMAIN dict

\* dict.get(key, default)
PyGet(dict, key, default) == IF key \in DOMAIN dict THEN dict[key] ELSE default

\* check 7 records a command: "last_cmd_time in self.last_values" and the
\* value differs from the one of last_values
CommandRecorded(data, last_values) ==
    /\ PyIn("int", data.last_command_time, last_values)
    /\ data.last_command_time # PyGet(last_values, "last_command_time", 0)

Within(history, now, window) == SelectSeq(history, LAMBDA t : now - t < window)

\* self.command_history after analyze_security_events at time now
history_after(data, last_values, history, now) ==
    IF data # <<>> /\ CommandRecorded(data, last_values)
    THEN Within(Append(history, now), now, HistoryWindow)
    ELSE history

Exceeds_OrEqual(value, threshold) == value >= threshold
\* "sec_events > self.alert_thresholds['security_event_max']"
Exceeds(value, threshold) == value > threshold

OutsideRange_Inclusive(value, low, high) == value <= low \/ value >= high
\* "safety_timer < safety_timer_min or safety_timer > safety_timer_max"
OutsideRange(value, low, high) == value < low \/ value > high

\* analyze_security_events, check by check
analyze_security_events(data, last_values, history, now) ==
    IF data = <<>> THEN <<>>
    ELSE   Alert(Exceeds(data.security_event_count, security_event_max),
                 "HIGH_SECURITY_EVENTS", "HIGH")
        \o (IF IsMaintenanceBypass(data.maintenance_override)
            THEN Alert(TRUE, "MAINTENANCE_BYPASS_ACTIVE", "CRITICAL")
            ELSE Alert(data.maintenance_override # Wide(0), "UNAUTHORIZED_MAINTENANCE", "HIGH"))
        \o Alert(OutsideRange(data.safety_timer_preset, safety_timer_min, safety_timer_max),
                 "SAFETY_TIMER_MANIPULATION", "HIGH")
        \o Alert(data.health_signature # expected_signature, "SYSTEM_COMPROMISE", "CRITICAL")
        \o Alert(data.emergency_bypass, "EMERGENCY_BYPASS_ACTIVE", "HIGH")
        \o Alert(data.debug_mode, "DEBUG_MODE_ACTIVE", "MEDIUM")
        \o Alert(/\ CommandRecorded(data, last_values)
                 /\ Len(Within(history_after(data, last_values, history, now), now,
                                FrequencyWindow)) > max_command_frequency,
                 "HIGH_COMMAND_FREQUENCY", "MEDIUM")

\* the lines log_security_alert appends for the first n alerts
LogLines(alerts, n) == [i \in 1..n |-> <<alerts[i].severity, alerts[i].type>>]

\* print_status_summary: the 'Breaker:' label of the status line
print_status_summary(data) == IF data.circuit_breaker THEN "OPEN" ELSE "CLOSED"

\* run_monitoring up to its loop: "if not self.connect(): return"
mon_start ==
    /\ "monitor" \in running
    /\ mon_pc = "start"
    /\ IF Connect(plc_link)
       THEN mon_pc' = "loop" /\ mon_client' = "open"
       ELSE mon_pc' = "returned" /\ mon_client' = "closed"
    /\ UNCHANGED <<running, clock, envVars, notMon, mon_iteration, mon_time,
                   mon_current_data, mon_alerts, command_history, mon_transitions,
                   mon_written, mon_last_values, security_alerts_log>>

\* how many cycles of the monitor are followed
MaxMonCycles == 7
\* the seconds from one cycle's time.time() to the next: the sleep of 5
\* seconds, or a long pause of the process
TimeSteps == {5, 600}

\* one iteration of run_monitoring's loop; open() or write() of the alert log
\* may raise at any alert, which run_monitoring catches outside the loop
mon_cycle ==
    /\ "monitor" \in running
    /\ mon_pc = "loop"
    /\ clock < MaxMonCycles
    /\ clock' = clock + 1
    /\ mon_iteration' = mon_iteration + 1
    /\ \E sample \in RegisterSamples, step \in TimeSteps :
         LET current_data == read_security_registers(plc_link, sample)
             now == mon_time + step
             alerts == analyze_security_events(current_data, mon_last_values,
                                               command_history, now)
         IN  /\ mon_time' = now
             /\ mon_current_data' = current_data
             /\ mon_alerts' = alerts
             /\ command_history' =
                   history_after(current_data, mon_last_values, command_history, now)
             /\ mon_transitions' =
                   Within(IF /\ current_data # <<>>
                             /\ mon_last_values # <<>>
                             /\ current_data.last_command_time
                                    # mon_last_values.last_command_time
                          THEN Append(mon_transitions, now)
                          ELSE mon_transitions,
                          now, FrequencyWindow)
             /\ \E written \in 0..Len(alerts) :
                  /\ mon_written' = written
                  /\ security_alerts_log' = security_alerts_log \o LogLines(alerts, written)
                  /\ IF written < Len(alerts)
                     THEN /\ mon_pc' = "ended"
                          /\ mon_client' = "closed"
                          /\ UNCHANGED mon_last_values
                     ELSE /\ mon_last_values' =
                                IF current_data # <<>> THEN current_data ELSE mon_last_values
                          /\ UNCHANGED <<mon_pc, mon_client>>
    /\ UNCHANGED <<running, envVars, notMon>>

\* KeyboardInterrupt in run_monitoring: logged, then "finally: self.client.close()"
mon_interrupt ==
    /\ "monitor" \in running
    /\ mon_pc = "loop"
    /\ mon_pc' = "stopped"
    /\ mon_client' = "closed"
    /\ UNCHANGED <<running, clock, envVars, notMon, mon_iteration, mon_time,
                   mon_current_data, mon_alerts, command_history, mon_transitions,
                   mon_written, mon_last_values, security_alerts_log>>

(***************************************************************************)
(* Initial states and specifications.                                      *)
(***************************************************************************)
InitEnv ==
    /\ clock = 0
    /\ plc_link \in Links
    /\ plc_coil \in BOOLEAN

InitSimData ==
    /\ net_switch_closed = TRUE
    /\ net_load = InitialLoads
    /\ hmi_result = "none"
    /\ converged = FALSE
    /\ metrics = None
    /\ hmi_exc = "none"
    /\ power_flow_log = <<>>
    /\ scada_data_json = FileMissing

InitSimRest ==
    /\ hmi_pc = "connect"
    /\ hmi_client = "unset"
    /\ hmi_attempt = 0
    /\ InitSimData

InitSim == simulation_time = 0 /\ InitSimRest

InitPp ==
    /\ pp_pc = "connect"
    /\ pp_retry_count = 0
    /\ pp_result = "none"
    /\ pp_breaker_state = TRUE
    /\ pp_switch_closed = TRUE

InitWeb ==
    /\ web_pc = "connect"
    /\ web_retry_count = 0
    /\ web_client = "None"
    /\ web_connected = FALSE
    /\ web_breaker_state = FALSE
    /\ web_cycle_count = 0
    /\ web_switch_closed = TRUE
    /\ web_read = "none"
    /\ web_ops = <<>>
    /\ web_last_good = "never"
    /\ web_simulation = None
    /\ web_file_seen = "unread"
    /\ client_users = {}
    /\ web_breaker_writer = "init"
    /\ web_total_cycles = 0
    /\ web_power_flow = FALSE
    /\ web_emitted = <<>>
    /\ web_dwell = [cycles |-> 0, toggled |-> FALSE]
    /\ web_unclosed = FALSE
    /\ toggle_pc = "idle"
    /\ toggle_new_state = FALSE
    /\ toggle_status = "none"
    /\ active_connections = {}
    /\ sock_pc = [sid \in Sids |-> "closed"]
    /\ sock_emitted = [sid \in Sids |-> <<>>]

InitSaRest ==
    /\ QUIET_MODE \in (IF "standalone" \in running THEN BOOLEAN ELSE {FALSE})
    /\ CONSOLE_MODE \in (IF "standalone" \in running THEN BOOLEAN ELSE {FALSE})
    /\ sa_connected = FALSE
    /\ sa_breaker_state = FALSE
    /\ sa_switch_closed = TRUE
    /\ simulation_data = <<>>
    /\ sa_emitted = <<>>
    /\ sa_exc = FALSE
    /\ sa_total_cycles = 0
    /\ sa_read = "none"
    /\ sa_broadcasts = <<>>

InitSa ==
    /\ sa_pc = "connect"
    /\ sa_attempt = 0
    /\ sa_simulation_time = 0
    /\ InitSaRest

InitMonRest ==
    /\ mon_pc = "start"
    /\ mon_client = "closed"
    /\ mon_iteration = 0
    /\ mon_time = 0
    /\ mon_alerts = <<>>
    /\ command_history = <<>>
    /\ mon_transitions = <<>>
    /\ mon_written = 0
    /\ security_alerts_log = <<>>

InitMon ==
    /\ mon_current_data = <<>>
    /\ mon_last_values = <<>>
    /\ InitMonRest

InitPrograms == InitSim /\ InitPp /\ InitWeb /\ InitSa /\ InitMon

NextSim == connect_to_plc \/ run_simulation \/ hmi_interrupt \/ PlcEnv
NextPp == pp_connect \/ pp_loop \/ pp_interrupt \/ PlcEnv

\* the enhanced simulator alone
InitSimOnly == running = {"sim"} /\ InitEnv /\ InitPrograms
SpecSim == InitSimOnly /\ [][NextSim]_vars

\* the basic simulator alone
InitPpOnly == running = {"basic"} /\ InitEnv /\ InitPrograms
SpecPp == InitPpOnly /\ [][NextPp]_vars

\* the web dashboard's worker alone
NextWeb == web_connect \/ web_cycle \/ api_status \/ PlcEnv
InitWebOnly == running = {"web"} /\ InitEnv /\ InitPrograms
SpecWeb == InitWebOnly /\ [][NextWeb]_vars
\* the worker thread is scheduled again after every sleep
SpecWebFair == SpecWeb /\ WF_vars(web_connect) /\ WF_vars(web_cycle)

\* the standalone dashboard's worker alone
NextSa == sa_connect \/ sa_cycle \/ PlcEnv
InitSaOnly == running = {"standalone"} /\ InitEnv /\ InitPrograms
SpecStandalone == InitSaOnly /\ [][NextSa]_vars

\* either dashboard, on its own, without the requests of the web clients
NextDashboards == web_connect \/ web_cycle \/ sa_connect \/ sa_cycle \/ PlcEnv
InitDashboards == running \in {{"web"}, {"standalone"}} /\ InitEnv /\ InitPrograms
SpecDashboards == InitDashboards /\ [][NextDashboards]_vars

\* the security monitor alone
NextMon == mon_start \/ mon_cycle \/ mon_interrupt \/ PlcEnv
InitMonOnly == running = {"monitor"} /\ InitEnv /\ InitPrograms
SpecMon == InitMonOnly /\ [][NextMon]_vars

\* the enhanced simulator beside the web dashboard's status handler, the
\* simulator's write of the shared file taken step by step
NextShared == connect_to_plc \/ publish_open \/ publish_dump \/ api_status \/ PlcEnv
InitShared == running = {"sim", "web"} /\ InitEnv /\ InitPrograms
SpecShared == InitShared /\ [][NextShared]_vars

\* the web dashboard's worker beside its toggle_breaker handler, the
\* worker's iteration and the handler each in two steps
NextToggle ==
    web_connect \/ web_cycle_begin \/ web_cycle_end \/ toggle_begin \/ toggle_end \/ PlcEnv
InitToggle == running = {"web"} /\ InitEnv /\ InitPrograms
SpecToggle == InitToggle /\ [][NextToggle]_vars

\* the web dashboard's connect and disconnect handlers
NextSockets == handle_connect_check \/ handle_connect_add \/ handle_disconnect
InitSockets == running = {"sockets"} /\ InitEnv /\ InitPrograms
SpecSockets == InitSockets /\ [][NextSockets]_vars

\* either simulator
InitSimulators == running \in {{"sim"}, {"basic"}} /\ InitEnv /\ InitPrograms
NextSimulators ==
    connect_to_plc \/ run_simulation \/ hmi_interrupt \/ pp_connect \/ pp_loop
        \/ pp_interrupt \/ PlcEnv
\* the simulator or the web dashboard, each on its own
NextSnapshots ==
    \/ connect_to_plc \/ run_simulation \/ hmi_interrupt
    \/ web_connect \/ web_cycle \/ api_status
    \/ PlcEnv
InitSnapshots == running \in {{"sim"}, {"web"}} /\ InitEnv /\ InitPrograms
SpecSnapshots == InitSnapshots /\ [][NextSnapshots]_vars

\* the start-up connection phase of each program, on its own; its loop is
\* scheduled again after every sleep
NextStartup == connect_to_plc \/ pp_connect \/ web_connect \/ sa_connect \/ PlcEnv
InitStartup ==
    /\ running \in {{"sim"}, {"basic"}, {"web"}, {"standalone"}}
    /\ InitEnv
    /\ InitPrograms
SpecStartup == InitStartup /\ [][NextStartup]_vars
SpecStartupFair ==
    /\ SpecStartup
    /\ WF_vars(connect_to_plc) /\ WF_vars(pp_connect)
    /\ WF_vars(web_connect) /\ WF_vars(sa_connect)

\* simulation mode: the simulator after connect_to_plc gave up, or the
\* standalone worker after its connection attempts failed, at a simulated
\* time the loop reaches
MaxStartCycle == 7
SimTimes == {5 * k : k \in 0..MaxStartCycle}
InitSimulationMode ==
    /\ running \in {{"sim"}, {"standalone"}}
    /\ clock = 0
    /\ plc_link = "down"
    /\ plc_coil \in BOOLEAN
    /\ hmi_pc = "loop" /\ hmi_client = "None" /\ hmi_attempt = max_retries
    /\ simulation_time \in (IF "sim" \in running THEN SimTimes ELSE {0})
    /\ InitSimData
    /\ sa_pc = "loop" /\ sa_attempt = sa_max_retries
    /\ sa_simulation_time \in (IF "standalone" \in running THEN SimTimes ELSE {0})
    /\ InitSaRest
    /\ InitPp /\ InitWeb /\ InitMon
NextSimulationMode == run_simulation \/ sa_cycle
SpecSimulationMode == InitSimulationMode /\ [][NextSimulationMode]_vars

SpecSimulators == InitSimulators /\ [][NextSimulators]_vars

(***************************************************************************)
(* analyze_security_events on its own: register values on both sides of    *)
(* every threshold, and maintenance_override values of any width.          *)
(***************************************************************************)
AnalyzeInputs ==
    [security_event_count : {0, 10, 11},
     maintenance_override : {Wide(0), Wide(1), Wide(MaintenanceBypassLow),
                             <<MaintenanceBypassHigh, 0>>,
                             <<MaintenanceBypassHigh, MaintenanceBypassLow>>},
     safety_timer_preset : {49, 50, 500, 501},
     health_signature : {0, expected_signature},
     last_command_time : {0, 7},
     covert_channel_data : {0},
     circuit_breaker : {TRUE},
     emergency_bypass : BOOLEAN,
     debug_mode : BOOLEAN]

InitAnalyze ==
    /\ running = {"analyze"}
    /\ clock = 0
    /\ plc_link = "down"
    /\ plc_coil = FALSE
    /\ InitSim
    /\ InitPp
    /\ InitWeb
    /\ InitSa
    /\ mon_current_data \in AnalyzeInputs
    /\ mon_last_values \in {<<>>} \cup RegisterSamples
    /\ InitMonRest

\* self.analyze_security_events(current_data)
ApplyAnalyze ==
    /\ "analyze" \in running
    /\ clock = 0
    /\ clock' = 1
    /\ mon_alerts' = analyze_security_events(mon_current_data, mon_last_values,
                                             command_history, mon_time)
    /\ command_history' =
          history_after(mon_current_data, mon_last_values, command_history, mon_time)
    /\ UNCHANGED <<running, envVars, notMon, mon_pc, mon_client, mon_iteration, mon_time,
                   mon_current_data, mon_transitions, mon_written, mon_last_values,
                   security_alerts_log>>

SpecAnalyze == InitAnalyze /\ [][ApplyAnalyze]_vars

(***************************************************************************)
(* update_dynamic_loads on its own: every half hour of the simulated day   *)
(* and a range of random draws, among them draws far in the tails.         *)
(***************************************************************************)
DayHalfHours == 48
CommercialDraws == {-3000, 0, 3000}
NoiseDrawsWide == {-9000, -600, 0, 600}

InitLoads ==
    /\ running = {"loads"}
    /\ clock = 0
    /\ plc_link = "down"
    /\ plc_coil = FALSE
    /\ simulation_time \in {5 * k : k \in 0..(DayHalfHours - 1)}
    /\ InitSimRest
    /\ InitPp
    /\ InitWeb
    /\ InitSa
    /\ InitMon

\* self.update_dynamic_loads() at simulated time simulation_time
ApplyLoads ==
    /\ "loads" \in running
    /\ clock = 0
    /\ clock' = 1
    /\ \E r \in CommercialDraws, n0 \in NoiseDrawsWide, n1 \in NoiseDrawsWide,
          n2 \in NoiseDrawsWide :
          net_load' = update_dynamic_loads(simulation_time, r, <<n0, n1, n2>>)
    /\ UNCHANGED <<running, envVars, notSim, hmi_pc, hmi_client, hmi_attempt,
                   simulation_time, net_switch_closed, hmi_result, converged, metrics,
                   hmi_exc, power_flow_log, scada_data_json>>

SpecLoads == InitLoads /\ [][ApplyLoads]_vars

\* C10: after update_dynamic_loads, at every simulated time and for every
\* draw, each load's p_mw is positive, at least its floor (0.2, 0.1, 0.5 MW)
\* and at least 20% of its nominal value, and each q_mvar is the fixed
\* positive multiple (0.375, 0.4, 0.38) of its p_mw.
C10_LoadsFloorClamped ==
    clock > 0 =>
        /\ net_load[1].p_mw >= IndustrialFloor
        /\ net_load[2].p_mw >= CommercialFloor
        /\ net_load[3].p_mw >= ResidentialFloor
        /\ \A i \in 1..3 : net_load[i].p_mw > 0 /\ net_load[i].q_mvar > 0
        /\ 5 * net_load[1].p_mw >= IndustrialNominal
        /\ 5 * net_load[2].p_mw >= CommercialNominal
        /\ 5 * net_load[3].p_mw >= ResidentialNominal
        /\ net_load[1].q_mvar = net_load[1].p_mw * IndustrialQ
        /\ net_load[2].q_mvar = net_load[2].p_mw * CommercialQ
        /\ net_load[3].q_mvar = net_load[3].p_mw * ResidentialQ

\* C10 witness: an update in which all three floors were applied
C10_Witness ==
    /\ clock > 0
    /\ running = {"loads"}
    /\ net_load[1].p_mw = IndustrialFloor
    /\ net_load[2].p_mw = CommercialFloor
    /\ net_load[3].p_mw = ResidentialFloor

(***************************************************************************)
(* test_physical_process_fixed.py : PowerSystemHMI_Standalone              *)
(***************************************************************************)
\* the line entry of its get_system_metrics: a NaN loading_percent sets all four values to 0.0
line_data_standalone(res) ==
    IF IsNaN(res.loading_percent)
    THEN [name |-> "Critical Transmission Line", from_bus |-> "MV Bus 1", to_bus |-> "MV Bus 2",
          p_from_mw |-> 0, q_from_mvar |-> 0, loading_percent |-> 0, current_ka |-> 0]
    ELSE line_data(res)

(***************************************************************************)
(* Properties of the simulators.                                           *)
(***************************************************************************)
\* a step of run_simulation's loop
SimCycled == clock' = clock + 1

\* C1: the shared snapshot file is rewritten in a cycle only if that cycle's
\* solve succeeded; in a cycle whose solve failed the file keeps its content
\* and no line is appended to the time-series log.
C1_PublishOnlyConverged ==
    [][ /\ (SimCycled /\ ~converged') =>
              (scada_data_json' = scada_data_json /\ power_flow_log' = power_flow_log)
        /\ (scada_data_json' # scada_data_json) => (SimCycled /\ converged')
        /\ (power_flow_log' # power_flow_log) => (SimCycled /\ converged') ]_vars

\* C1 witness: a failed solve after a published cycle; the file still holds
\* the first cycle's snapshot and the log its one line
C1_Witness ==
    /\ clock = 2
    /\ ~converged
    /\ metrics = None
    /\ scada_data_json.state = "complete"
    /\ scada_data_json.doc.timestamp = 0
    /\ Len(power_flow_log) = 1

\* C3: a published snapshot taken with the breaker open has loading_percent,
\* current_ka, p_from_mw and q_from_mvar of the critical line equal to 0.0,
\* never NaN.
C3_IsolatedLineZero ==
    (scada_data_json.state = "complete" /\ ~scada_data_json.doc.breaker_state) =>
        LET l == critical_line(scada_data_json.doc)
        IN  /\ l.loading_percent = 0
            /\ l.current_ka = 0
            /\ l.p_from_mw = 0
            /\ l.q_from_mvar = 0

\* C4: whenever the coil read gave an error response or raised, the breaker
\* state applied to the grid model in that cycle is true (closed), in both
\* simulators, whatever the coil is.
C4_ReadFailureDefaultsClosed ==
    /\ hmi_result \in {"error", "exception"} => net_switch_closed
    /\ pp_result \in {"error", "exception"} => (pp_breaker_state /\ pp_switch_closed)

\* C4 witness: the enhanced simulator's read failed with an error response
\* while the coil was false, and the switch was closed
C4_Witness ==
    /\ hmi_result = "error"
    /\ plc_link = "error"
    /\ ~plc_coil
    /\ net_switch_closed
    /\ clock > 0

\* C8: a cycle whose solve failed leaves the loop running, and when the
\* next cycle's solve succeeds (and no I/O call raises) its snapshot is
\* written to the shared file and its line appended to the log.
C8_FailedSolveNotFatal ==
    [][ /\ (SimCycled /\ ~converged') => hmi_pc' = "loop"
        /\ (SimCycled /\ clock > 0 /\ ~converged /\ converged' /\ hmi_exc' = "none") =>
              /\ scada_data_json' = FileOf(metrics')
              /\ power_flow_log' =
                    Append(power_flow_log,
                           <<metrics'.timestamp, critical_line(metrics').loading_percent>>)
              /\ hmi_pc' = "loop" ]_vars

\* C8 witness: the first cycle's solve failed, the second cycle's snapshot is published
C8_Witness ==
    /\ clock = 2
    /\ simulation_time = 10
    /\ converged
    /\ scada_data_json = FileOf(metrics)
    /\ metrics.timestamp = 1
    /\ Len(power_flow_log) = 1
    /\ hmi_pc = "loop"

(***************************************************************************)
(* Properties of the web dashboard's worker.                               *)
(***************************************************************************)
\* C5: in every cycle in which read_plc_data failed, the breaker state
\* applied to the grid model is the value of the last successful read or,
\* if no read has succeeded yet, the default true (closed).
C5_FailedReadKeepsLastGood ==
    web_read \in {"error", "exception"} =>
        web_switch_closed = (IF web_last_good = "never" THEN TRUE ELSE web_last_good = "true")

\* C6: a failed read is followed in its cycle by exactly one connection
\* attempt and by no further read or connect; a successful read by none.
C6_OneReconnectPerFailure ==
    web_pc = "loop" =>
        /\ web_read \in {"error", "exception"} => web_ops = <<"read_coils", "connect">>
        /\ web_read = "ok" => web_ops = <<"read_coils">>
        /\ web_read = "none" => web_ops = <<>>

\* C6 witness: a read raised, the one reconnect failed, the cycle ended disconnected
C6_Witness ==
    /\ web_pc = "loop"
    /\ web_read = "exception"
    /\ web_ops = <<"read_coils", "connect">>
    /\ ~web_connected

\* C7: whenever the controller is reachable from some point on, the worker
\* is eventually connected again and reads the breaker state from it.
C7_EventuallyReconnected ==
    []<>(plc_link # "up" \/ (web_connected /\ web_read = "ok"))

(***************************************************************************)
(* Properties of the standalone dashboard and of the long-running loops.   *)
(***************************************************************************)
\* a snapshot with every section filled
IsComplete(doc) == \A i \in 1..Len(Sections) : doc[Sections[i]] # <<>>

\* C2: the 'simulation' document the standalone worker broadcasts is always
\* empty or a complete snapshot, never a partially filled one.
C2_BroadcastEmptyOrComplete ==
    sa_emitted = <<>> \/ IsComplete(sa_emitted)

\* C9: the polling loop of the simulators, of the security monitor and of
\* the dashboard worker ends only on an external interrupt; no failed
\* connect, read, solve or file write ends it.
C9_OnlyInterruptEndsLoop ==
    /\ mon_pc \in {"start", "loop", "stopped"}
    /\ pp_pc \in {"connect", "loop", "stopped"}
    /\ hmi_pc \in {"connect", "loop", "stopped"}
    /\ web_pc \in {"connect", "loop"}

(***************************************************************************)
(* Properties of the publishing step.                                      *)
(***************************************************************************)
\* C11: after a cycle published its snapshot, performing the publish step
\* once more with the same snapshot leaves the shared file and the
\* time-series log as they are.
C11_PublishIdempotent ==
    (clock > 0 /\ metrics # None /\ hmi_exc = "none") =>
        /\ FileOf(metrics) = scada_data_json
        /\ PublishLog(power_flow_log, metrics) = power_flow_log

\* C12: whenever the dashboard reads the shared file while the simulator
\* writes it, the file it reads holds a complete snapshot, the previous or
\* the new one, never an empty or partially written document.
C12_ReaderSeesCompleteSnapshot ==
    web_file_seen \in {"unread", "missing", "complete"}

(***************************************************************************)
(* Properties of the security monitor.                                     *)
(***************************************************************************)
\* the alerts of one type among alerts
OfType(alerts, type) == SelectSeq(alerts, LAMBDA a : a.type = type)

\* C13: analyze_security_events emits exactly one HIGH_SECURITY_EVENTS alert,
\* of severity HIGH, when security_event_count is greater than 10, and none
\* when it is 10 or less.
C13_SecurityEventsThreshold ==
    clock = 1 =>
        OfType(mon_alerts, "HIGH_SECURITY_EVENTS") =
            IF mon_current_data.security_event_count > 10
            THEN << [type |-> "HIGH_SECURITY_EVENTS", severity |-> "HIGH"] >>
            ELSE <<>>

\* C13 witness: both sides of the boundary were analysed
C13_Witness ==
    /\ clock = 1
    /\ mon_current_data.security_event_count = 11
    /\ Len(OfType(mon_alerts, "HIGH_SECURITY_EVENTS")) = 1

\* C14: analyze_security_events emits at most one maintenance alert: one
\* CRITICAL MAINTENANCE_BYPASS_ACTIVE alone for 0xDEADBEEF, one HIGH
\* UNAUTHORIZED_MAINTENANCE alone for any other non-zero value, none for 0.
C14_MaintenanceAlerts ==
    clock = 1 =>
        LET bypass == OfType(mon_alerts, "MAINTENANCE_BYPASS_ACTIVE")
            unauthorized == OfType(mon_alerts, "UNAUTHORIZED_MAINTENANCE")
            value == mon_current_data.maintenance_override
        IN  CASE value = <<57005, 48879>> ->
                    /\ bypass = << [type |-> "MAINTENANCE_BYPASS_ACTIVE",
                                    severity |-> "CRITICAL"] >>
                    /\ unauthorized = <<>>
              [] value = <<0, 0>> -> bypass = <<>> /\ unauthorized = <<>>
              [] OTHER ->
                    /\ bypass = <<>>
                    /\ unauthorized = << [type |-> "UNAUTHORIZED_MAINTENANCE",
                                          severity |-> "HIGH"] >>

\* C14 witness: 0xDEADBEEF was analysed and gave the bypass alert
C14_Witness ==
    /\ clock = 1
    /\ mon_current_data.maintenance_override = <<57005, 48879>>
    /\ Len(OfType(mon_alerts, "MAINTENANCE_BYPASS_ACTIVE")) = 1

\* the last cycle recorded a change of last_command_time
TransitionNow == mon_transitions # <<>> /\ mon_transitions[Len(mon_transitions)] = mon_time

\* C15: when last_command_time changes between consecutive successful reads
\* 6 times within 60 seconds, the cycle of the 6th change emits exactly one
\* HIGH_COMMAND_FREQUENCY alert and the cycles of the first 5 emit none.
C15_SixthTransitionAlerts ==
    (TransitionNow /\ Len(mon_transitions) <= 6) =>
        Len(OfType(mon_alerts, "HIGH_COMMAND_FREQUENCY")) =
            IF Len(mon_transitions) = 6 THEN 1 ELSE 0

LoggedNow ==
    SubSeq(security_alerts_log, Len(security_alerts_log) - mon_written + 1,
           Len(security_alerts_log))

\* how many alerts of the given types the last cycle has to produce
Expected(breach) == IF breach THEN 1 ELSE 0
Produced(types) == Len(SelectSeq(mon_alerts, LAMBDA a : a.type \in types))

C18_ConnectionCap ==
    /\ Cardinality(active_connections) <= 5
    /\ \A sid \in Sids :
          sock_emitted[sid] = <<"connection_rejected", "Server at capacity">> /\ sock_pc[sid] = "closed"
              => sid \notin active_connections

\* C19: plc_status['breaker_state'] has one writer, the background worker's
\* loop: no socket handler assigns it.
C19_WorkerIsOnlyWriter ==
    web_breaker_writer \in {"init", "worker"}

\* C20: the Modbus client of the worker's read_coils is never inside a call
\* of two execution contexts at the same time.
C20_ClientNotShared ==
    Cardinality(client_users) <= 1

(***************************************************************************)
(* Properties of the status document and of the snapshots.                 *)
(***************************************************************************)
\* C21: whenever get_simulation_data has read a shared file that is missing,
\* unreadable or malformed it returns the fallback dataset, so the
\* 'simulation' part of the status document is never None.
C21_FallbackNeverNone ==
    /\ web_file_seen # "unread" => web_simulation # None
    /\ web_file_seen \in {"missing", "empty", "partial"} =>
          DOMAIN web_simulation = DOMAIN FallbackData(TRUE)


\* the keys of the status document
StatusKeys == {"plc_status", "system_metrics", "simulation"}

\* what a cycle emitted is one 'scada_update' carrying the status document
\* get_system_status builds from the state the cycle left
OneBroadcast(sent, status) ==
    /\ Len(sent) = 1
    /\ sent[1].event = "scada_update"
    /\ DOMAIN sent[1].data = StatusKeys
    /\ sent[1].data = status

\* a cycle of the web worker, of the standalone worker, has run
WebCycled == web_file_seen # "unread"
SaCycled == clock > 0

Published ==
    (IF metrics # None THEN {metrics} ELSE {}) \cup
    (IF scada_data_json.state = "complete" THEN {scada_data_json.doc} ELSE {})

\* |generation + import - load| of the values a snapshot publishes, NaN when
\* one of them is NaN
LossesOf(m) ==
    LET generation == m.generators[1].p_mw
        import == m.power_flow.grid_import_mw
        load == SumP(m.loads)
    IN  IF IsNaN(generation) \/ IsNaN(import) \/ IsNaN(load)
        THEN NaN
        ELSE Abs(generation + import - load)

\* C23: in every published snapshot system_losses_mw is
\* |total_generation_mw + grid_import_mw - total_load_mw|, the totals being
\* the sums of p_mw over the loads and the generators; it is never negative,
\* and it is 0.0 for generation 1.5, import 1.9 and load 3.4.
C23_LossesAbsolute ==
    /\ \A m \in Published :
          /\ m.power_flow.total_load_mw = SumP(m.loads)
          /\ m.power_flow.total_generation_mw = m.generators[1].p_mw
          /\ m.power_flow.system_losses_mw = LossesOf(m)
          /\ IsNaN(m.power_flow.system_losses_mw) \/ m.power_flow.system_losses_mw >= 0
    /\ system_losses_mw(15000, 19000, 34000) = 0

\* a published snapshot whose load exceeds generation plus import
C23_Witness ==
    \E m \in Published :
        /\ ~IsNaN(m.power_flow.total_generation_mw)
        /\ m.power_flow.total_load_mw >
              m.power_flow.total_generation_mw + m.power_flow.grid_import_mw
        /\ m.power_flow.system_losses_mw > 0


\* C24: the system_frequency of every published snapshot lies within 0.1 Hz
\* of 60.0 Hz, whatever the jitter drawn.
C24_FrequencyWithinBand ==
    \A m \in Published : Abs(m.system_frequency - 60000) <= 100


(***************************************************************************)
(* Properties of shutdown, of the alert log and of simulated time.         *)
(***************************************************************************)
\* C25: whenever run_monitoring has left its loop after connecting, by an
\* interrupt or by an exception, the monitor's connection is closed, and an
\* interrupted simulator loop has closed its connection as well.
C25_ConnectionsClosedOnExit ==
    /\ mon_pc \in {"stopped", "ended"} => mon_client = "closed"
    /\ hmi_pc = "stopped" => hmi_client # "connected"


Severities == {"LOW", "MEDIUM", "HIGH", "CRITICAL"}

\* the commas inside alert['message'], by alert type: only the message of
\* DEBUG_MODE_ACTIVE, 'Debug mode active, covert channel data: ...', has one
MessageCommas(type) == IF type = "DEBUG_MODE_ACTIVE" THEN 1 ELSE 0

\* the comma-separated fields of the line log_security_alert writes:
\* timestamp, severity, type, then the message and the value
FieldsOfLine(line) == 3 + (1 + MessageCommas(line[2])) + 1

\* C26: every line of the alert log has exactly five comma-separated fields
\* and a severity among LOW, MEDIUM, HIGH, CRITICAL.
C26_FiveFieldLines ==
    \A i \in 1..Len(security_alerts_log) :
        /\ FieldsOfLine(security_alerts_log[i]) = 5
        /\ security_alerts_log[i][1] \in Severities


\* C27: simulated time advances by exactly 5 in every cycle of the
\* simulator and of the standalone worker, the cycles whose solve failed or
\* that raised while publishing included: after n cycles it is 5 n.
C27_TimeAdvancesEveryCycle ==
    /\ "sim" \in running => simulation_time = 5 * clock
    /\ "standalone" \in running => sa_simulation_time = 5 * clock


(***************************************************************************)
(* Properties of the connection status and of the breaker state.           *)
(***************************************************************************)
\* C28: the status a dashboard shows after a cycle whose read failed has
\* connected = false, unless a connect has succeeded since the failure.
C28_FailedReadShowsDisconnected ==
    /\ web_read \in {"error", "exception"} /\ web_emitted # <<>> =>
          \/ ~web_emitted[1].data.plc_status.connected
          \/ web_ops = <<"read_coils", "connect">>
    /\ sa_read \in {"error", "exception"} =>
          ~sa_broadcasts[1].data.plc_status.connected

\* the fallback datasets in front of a reader of the dashboard
Fallbacks ==
    (IF web_file_seen = "missing" THEN {web_simulation} ELSE {}) \cup
    (IF web_emitted # <<>> /\ web_emitted[1].data.simulation # None
     THEN {web_emitted[1].data.simulation} ELSE {})

\* C29: in every snapshot of the simulator and in every fallback dataset of
\* the dashboard breaker_status is 'CLOSED' exactly when breaker_state is
\* true and 'OPEN' exactly when it is false, and breaker_state is the switch
\* state applied to the grid model for the solve of that cycle.
C29_StatusMatchesState ==
    /\ \A m \in Published \cup Fallbacks :
          /\ m.breaker_state \in BOOLEAN
          /\ m.breaker_status = "CLOSED" <=> m.breaker_state
          /\ m.breaker_status = "OPEN" <=> ~m.breaker_state
    /\ metrics # None => metrics.breaker_state = net_switch_closed
    /\ web_emitted # <<>> /\ web_emitted[1].data.simulation # None =>
          web_emitted[1].data.simulation.breaker_state = web_switch_closed

\* the simulator has published a snapshot of a cycle solved with the switch open
C29_Witness ==
    /\ metrics # None
    /\ ~net_switch_closed
    /\ metrics.breaker_status = "OPEN"


\* the breaker of the k-th cycle of a run that repeats 6 closed cycles and
\* then 2 open ones, starting closed; simulated time t is cycle t / 5
CycleClosed(t) == (t \div 5) % 8 < 6

SimulationModeCycle ==
    /\ "web" \in running
    /\ ~web_connected
    /\ web_pc = "loop"
    /\ web_cycle_count' # web_cycle_count

\* C31: while the PLC is not connected the worker toggles breaker_state
\* once every 6 cycles and leaves it alone in the other cycles: a state the
\* worker toggled into lasts exactly 6 cycles, and no state lasts longer.
C31_ToggleEverySixCycles ==
    [][SimulationModeCycle =>
          /\ web_dwell.toggled =>
                (web_breaker_state' # web_breaker_state <=> web_dwell.cycles = 6)
          /\ web_dwell.cycles >= 6 => web_breaker_state' # web_breaker_state
          /\ web_breaker_state' \in {web_breaker_state, ~web_breaker_state}]_vars

\* simulation mode has closed the breaker for a full dwell and opened it again
C31_Witness ==
    /\ ~web_connected
    /\ web_dwell = [cycles |-> 1, toggled |-> TRUE]
    /\ ~web_breaker_state


\* the attempts made are within the fixed number, the phase has stopped at
\* the first success or after the last attempt, and only the basic simulator
\* exits: the others go on without a connection
StartupBounded ==
    /\ pp_retry_count <= 30
    /\ pp_pc = "loop" => pp_retry_count < 30
    /\ pp_pc = "exited" <=> pp_retry_count = 30
    /\ hmi_attempt <= 15
    /\ hmi_pc = "loop" <=> \/ hmi_client = "connected" /\ hmi_attempt < 15
                           \/ hmi_client = "None" /\ hmi_attempt = 15
    /\ hmi_pc \in {"connect", "loop"}
    /\ web_retry_count <= 10
    /\ web_pc = "loop" <=> \/ web_connected /\ web_retry_count < 10
                           \/ ~web_connected /\ web_retry_count = 10
    /\ web_pc \in {"connect", "loop"}
    /\ sa_attempt <= 5
    /\ sa_pc = "loop" <=> \/ sa_connected /\ sa_attempt < 5
                          \/ ~sa_connected /\ sa_attempt = 5
    /\ sa_pc \in {"connect", "loop"}

\* the start-up phase of the program that runs is over
StartupDone ==
    /\ "sim" \in running => hmi_pc # "connect"
    /\ "basic" \in running => pp_pc # "connect"
    /\ "web" \in running => web_pc # "connect"
    /\ "standalone" \in running => sa_pc # "connect"

\* C32: the start-up connection phase terminates: at most 30, 15, 10 and 5
\* attempts, stopping at the first success; after the last failed attempt
\* the basic simulator exits and the others enter simulation mode, and the
\* basic simulator never enters its loop unconnected.
C32_StartupTerminates == []StartupBounded /\ <>StartupDone

\* the basic simulator has used up its attempts and exited
C32_Witness == pp_pc = "exited" /\ pp_retry_count = 30


(***************************************************************************)
(* Further properties of the security monitor.                             *)
(***************************************************************************)
\* C33: analyze_security_events emits exactly one SAFETY_TIMER_MANIPULATION
\* alert when safety_timer_preset is below 50 or above 500, and none when it
\* is 50, 500 or in between.
C33_SafetyTimerRange ==
    clock = 1 =>
        Len(OfType(mon_alerts, "SAFETY_TIMER_MANIPULATION")) =
            IF mon_current_data.safety_timer_preset \in 50..500 THEN 0 ELSE 1

\* presets on the bounds of the normal range were analysed without an alert
C33_Witness ==
    /\ clock = 1
    /\ mon_current_data.safety_timer_preset = 500
    /\ OfType(mon_alerts, "SAFETY_TIMER_MANIPULATION") = <<>>


(***************************************************************************)
(* Properties of the web dashboard's handlers.                             *)
(***************************************************************************)
ErrorStatuses == {"PLC not connected", "Failed to write to PLC", "Failed to toggle breaker"}

\* steps of handle_toggle_breaker: its check and read of the state, and the
\* answer of write_coil
ToggleEnters == toggle_pc = "idle" /\ toggle_pc' = "writing"
ToggleRefuses == toggle_pc = "idle" /\ toggle_pc' = "idle" /\ toggle_status' # toggle_status
ToggleAnswers == toggle_pc = "writing" /\ toggle_pc' = "idle"
WorkerStep == web_pc' # web_pc

\* C34: handle_toggle_breaker changes plc_status.breaker_state only when
\* the PLC is connected and the coil write succeeds; the new state is then
\* the negation of the state the handler read and a 'Breaker ...' status is
\* emitted.  Not connected, or the write answers an error or raises:
\* breaker_state is unchanged and an error status is emitted.
C34_ToggleOnlyOnSuccess ==
    [][/\ ToggleEnters =>
             /\ web_connected
             /\ toggle_new_state' = ~web_breaker_state
             /\ web_breaker_state' = web_breaker_state
       /\ ToggleRefuses =>
             /\ ~web_connected \/ web_client = "None"
             /\ toggle_status' = "PLC not connected"
             /\ web_breaker_state' = web_breaker_state
       /\ ToggleAnswers =>
             IF plc_link = "up"
             THEN /\ web_breaker_state' = toggle_new_state
                  /\ toggle_status' = (IF web_breaker_state' THEN "Breaker CLOSED"
                                                              ELSE "Breaker OPEN")
             ELSE /\ web_breaker_state' = web_breaker_state
                  /\ toggle_status' \in ErrorStatuses
       /\ web_breaker_state' # web_breaker_state /\ ~WorkerStep =>
             ToggleAnswers /\ plc_link = "up"]_vars

\* the handler has closed the breaker
C34_Witness ==
    /\ toggle_pc = "idle"
    /\ toggle_status = "Breaker CLOSED"
    /\ web_breaker_writer = "handler"
    /\ web_breaker_state


\* a cycle of run_monitoring
MonitorCycle == "monitor" \in running /\ clock' # clock

\* C35: a monitoring cycle whose register read fails produces and logs no
\* alert and leaves last_values and command_history as they were;
\* last_values is replaced, by the current data, only in a cycle whose read
\* succeeded.
C35_FailedReadChangesNothing ==
    [][/\ MonitorCycle /\ plc_link # "up" =>
             /\ mon_current_data' = <<>>
             /\ mon_alerts' = <<>>
             /\ security_alerts_log' = security_alerts_log
             /\ mon_last_values' = mon_last_values
             /\ command_history' = command_history
       /\ mon_last_values' # mon_last_values =>
             /\ MonitorCycle /\ plc_link = "up"
             /\ mon_last_values' = mon_current_data']_vars

\* a failed read after a successful one: last_values still holds the data
\* of the successful read
C35_Witness ==
    /\ clock > 1
    /\ mon_current_data = <<>>
    /\ mon_last_values # <<>>
    /\ mon_pc = "loop"


\* the last cycle printed the status summary: "if iteration % 5 == 0"
SummaryPrinted ==
    /\ mon_iteration > 0
    /\ mon_iteration % 5 = 0
    /\ mon_current_data # <<>>
    /\ mon_written = Len(mon_alerts)

\* C36: the label print_status_summary prints for a coil value is the
\* breaker_status the simulator publishes for the same value: coil true is
\* CLOSED for both.
C36_SameBreakerLabel ==
    SummaryPrinted =>
        print_status_summary(mon_current_data) =
            BreakerStatus(mon_current_data.circuit_breaker)


\* what one holding register can carry
RegisterValues == 0..65535

\* C37: among the values a holding register can carry there is a
\* maintenance_override for which MAINTENANCE_BYPASS_ACTIVE is emitted and a
\* health_signature for which SYSTEM_COMPROMISE is not; checked on the data
\* of every analysed read, with the one register replaced.
C37_SentinelsReadable ==
    clock = 1 =>
        /\ \E v \in RegisterValues :
              OfType(analyze_security_events(
                        [mon_current_data EXCEPT !.maintenance_override = Wide(v)],
                        mon_last_values, <<>>, mon_time),
                     "MAINTENANCE_BYPASS_ACTIVE") # <<>>
        /\ \E v \in RegisterValues :
              OfType(analyze_security_events(
                        [mon_current_data EXCEPT !.health_signature = v],
                        mon_last_values, <<>>, mon_time),
                     "SYSTEM_COMPROMISE") = <<>>


\* the controller connections the dashboard has opened and not closed: the
\* one of its current client and the one of a client it replaced
OpenConnections ==
    (IF web_connected THEN 1 ELSE 0) + (IF web_unclosed THEN 1 ELSE 0)

\* C38: the dashboard holds at most one open controller connection:
\* connect_to_plc never replaces a client that had connected without
\* closing it.
C38_OneOpenConnection ==
    /\ ~web_unclosed
    /\ OpenConnections <= 1


\* the clients whose connection was accepted and that have not disconnected
Connected == {sid \in Sids : sock_pc[sid] = "open"}

\* C39: active_connections is exactly the set of the clients that were
\* accepted and have not disconnected yet, a client whose initial data send
\* failed included.
C39_ActiveConnectionsExact == active_connections = Connected


(***************************************************************************)
(* Properties of the simulator's two outputs.                              *)
(***************************************************************************)
\* the line of the time-series log that belongs to snapshot m
LogLineOf(m) == <<m.timestamp, critical_line(m).loading_percent>>

\* C40: the time-series log and the shared file stay in step, also when a
\* write fails in the middle of a cycle: there is a log line exactly when
\* there is a snapshot in the file, and the last log line carries the
\* timestamp and the critical-line loading of that snapshot.
C40_LogAndFileInStep ==
    /\ power_flow_log = <<>> <=> scada_data_json.state = "missing"
    /\ power_flow_log # <<>> =>
          /\ scada_data_json.state = "complete"
          /\ power_flow_log[Len(power_flow_log)] = LogLineOf(scada_data_json.doc)

====
